---------------------------- MODULE Spec2Model ----------------------------
(***************************************************************************)
(* A model of the TLS chunk poller of tls_poller.go: the Ingestion Task    *)
(* (pollChunksPerfBuffer), the Stream Demultiplexer (poll and              *)
(* handleTlsChunk), the flow-key and TcpID builders, and the bounded       *)
(* correlation cache with its eviction callback.                           *)
(***************************************************************************)
EXTENDS Integers, Sequences, FiniteSets, TLC

(***************************************************************************)
(* Bounds of the model.                                                    *)
(***************************************************************************)
\* Number of records the perf reader hands out before Read blocks for good.
MaxReads == 3
\* Number of teardown notifications the external stream owners send in all.
MaxTeardowns == 2
\* Capacity of the closeStreams channel (misc.TlsCloseChannelBufferSize).
TlsCloseChannelBufferSize == 1
\* The cache capacities explored with arbitrary inserts and lookups.
MaxCacheSize == 2
\* Number of inserts and lookups in such an exploration.
MaxCacheOps == 4

(***************************************************************************)
(* Formatting: fmt's %d / strconv.FormatUint and net.IP's String().        *)
(***************************************************************************)
Digits == <<"0", "1", "2", "3", "4", "5", "6", "7", "8", "9">>

RECURSIVE FormatUint(_)
FormatUint(n) ==
    IF n < 10 THEN Digits[n + 1]
    ELSE FormatUint(n \div 10) \o Digits[(n % 10) + 1]

\* A four-byte net.IP printed in dotted decimal.
IpString(ip) ==
    FormatUint(ip[1]) \o "." \o FormatUint(ip[2]) \o "." \o
    FormatUint(ip[3]) \o "." \o FormatUint(ip[4])

(***************************************************************************)
(* The wire form of a chunk's address quad (tracerTlsChunk.AddressInfo):   *)
(* addresses and ports are in network byte order, read as little-endian    *)
(* integers.                                                               *)
(***************************************************************************)
\* The uint32 that holds the address a.b.c.d.
Inet(a, b, c, d) == a + b * 256 + c * 65536 + d * 16777216
\* The uint16 that holds port p.
Htons(p) == (p % 256) * 256 + (p \div 256)

\* The two endpoints of the scenario: 10.0.0.1:5000 and 10.0.0.2:443.
Endpoints ==
    { [addr |-> Inet(10, 0, 0, 1), port |-> Htons(5000)],
      [addr |-> Inet(10, 0, 0, 2), port |-> Htons(443)] }

\* A quad as the kernel reports it: the source and the destination of the
\* observed traffic.
Quads ==
    { [Saddr |-> s.addr, Daddr |-> d.addr, Sport |-> s.port, Dport |-> d.port] :
        <<s, d>> \in {p \in Endpoints \X Endpoints : p[1] # p[2]} }

\* The decoded chunks the reader can deliver: a quad and the direction the
\* chunk's Flags encode.
Chunks == { [AddressInfo |-> q, request |-> r] : q \in Quads, r \in BOOLEAN }

\* No chunk: the zero value.
NoChunk ==
    [ AddressInfo |-> [Saddr |-> 0, Daddr |-> 0, Sport |-> 0, Dport |-> 0],
      request |-> FALSE ]

\* The quad with source and destination swapped.
Reverse(q) ==
    [Saddr |-> q.Daddr, Daddr |-> q.Saddr, Sport |-> q.Dport, Dport |-> q.Sport]

(***************************************************************************)
(* Chunk accessors.                                                        *)
(***************************************************************************)
IntToIP(n) ==
    << n % 256, (n \div 256) % 256, (n \div 65536) % 256, (n \div 16777216) % 256 >>

Ntohs(p) == (p % 256) * 256 + (p \div 256)

getAddressPair(chunk) ==
    [ srcIp   |-> IntToIP(chunk.AddressInfo.Saddr),
      srcPort |-> Ntohs(chunk.AddressInfo.Sport),
      dstIp   |-> IntToIP(chunk.AddressInfo.Daddr),
      dstPort |-> Ntohs(chunk.AddressInfo.Dport) ]

isRequest(chunk) == chunk.request

\* The reassembly context of a stream a chunk goes to.
getReader(chunk) == IF isRequest(chunk) THEN "client" ELSE "server"

(***************************************************************************)
(* buildTlsKey and buildTcpId.                                             *)
(***************************************************************************)
Endpoint(ip, port) == IpString(ip) \o ":" \o FormatUint(port)

\* Faulty variant: the key never swaps the endpoints.
buildTlsKeyAsObserved(address, request) ==
    Endpoint(address.srcIp, address.srcPort) \o ">" \o
    Endpoint(address.dstIp, address.dstPort)

buildTlsKey(address, request) ==
    IF request
    THEN Endpoint(address.srcIp, address.srcPort) \o ">" \o
         Endpoint(address.dstIp, address.dstPort)
    ELSE Endpoint(address.dstIp, address.dstPort) \o ">" \o
         Endpoint(address.srcIp, address.srcPort)

buildTcpId(address, request) ==
    IF request
    THEN [ SrcIP   |-> IpString(address.srcIp),
           DstIP   |-> IpString(address.dstIp),
           SrcPort |-> FormatUint(address.srcPort),
           DstPort |-> FormatUint(address.dstPort) ]
    ELSE [ SrcIP   |-> IpString(address.dstIp),
           DstIP   |-> IpString(address.srcIp),
           SrcPort |-> FormatUint(address.dstPort),
           DstPort |-> FormatUint(address.srcPort) ]

\* Every flow key a chunk of the model can have.
Keys == { buildTlsKey(getAddressPair(c), isRequest(c)) : c \in Chunks }


(***************************************************************************)
(* Maps (Go's map[string]*tlsStream and the shared stream table).          *)
(***************************************************************************)
EmptyMap == [x \in {} |-> 0]

MapPut(m, k, v) == [x \in (DOMAIN m) \cup {k} |-> IF x = k THEN v ELSE m[x]]

MapDelete(m, k) == [x \in (DOMAIN m) \ {k} |-> m[x]]

(***************************************************************************)
(* State.                                                                  *)
(***************************************************************************)
VARIABLES
    readerClosed,   \* chunksReader.Close() has been called
    reads,          \* records the reader has handed out so far
    lastRead,       \* what the last Read() returned
    ipc,            \* where pollChunksPerfBuffer is: idle, read, send, done
    sending,        \* the chunk pollChunksPerfBuffer is blocked sending
    chunksClosed,   \* the chunks channel is closed
    closeCalls,     \* number of close(chunks) calls
    ppc,            \* where poll is: start, select, done
    streams,        \* p.streams: flow key -> stream reference
    heap,           \* the tlsStream objects, by reference
    streamsMap,     \* the shared TcpStreamMap: allocator and table
    closeStreams,   \* p.closeStreams: the buffered teardown channel
    waiting,        \* the sends blocked on the full closeStreams, oldest first
    sent,           \* teardown sends started so far
    handoff,        \* history: the chunks decoded and the chunks handled
    log,            \* the lines logged so far
    lastOp,         \* the last thing poll did
    created,        \* per key: streams created since its last teardown
    fdCache,        \* p.fdCache: the LRU, most recently used first
    evictedCounter, \* p.evictedCounter
    cacheOp         \* the last operation on p.fdCache, and how many so far

pollerVars ==
    << readerClosed, reads, lastRead, ipc, sending, chunksClosed, closeCalls,
       ppc, streams, heap, streamsMap, closeStreams, waiting, sent, handoff,
       log, lastOp, created >>

cacheVars == << fdCache, evictedCounter, cacheOp >>

vars == << pollerVars, cacheVars >>

(***************************************************************************)
(* The shared stream-identity allocator and stream table (TcpStreamMap).   *)
(***************************************************************************)
NewTcpStreamMap ==
    [streamId |-> 0, table |-> EmptyMap, nextIdCalls |-> 0, storeCalls |-> 0]

\* NextId: the allocator after the call; the id handed out is its streamId.
NextId(sm) ==
    [sm EXCEPT !.streamId = @ + 1, !.nextIdCalls = @ + 1]

Store(sm, id, ref) ==
    [sm EXCEPT !.table = MapPut(@, id, ref), !.storeCalls = @ + 1]

(***************************************************************************)
(* tlsStream and tlsReader objects.                                        *)
(***************************************************************************)
\* A reader field not set yet (nil).
NoReader ==
    [ tcpID |-> [SrcIP |-> "", DstIP |-> "", SrcPort |-> "", DstPort |-> ""],
      isClient |-> FALSE, chunks |-> << >>, set |-> FALSE ]

NewTlsStream(key) ==
    [key |-> key, id |-> 0, client |-> NoReader, server |-> NoReader]

NewTlsReader(tcpID, isClient) ==
    [tcpID |-> tcpID, isClient |-> isClient, chunks |-> <<>>, set |-> TRUE]

\* tlsReader.newChunk: the reader takes the chunk.
newChunk(reader, chunk) == [reader EXCEPT !.chunks = Append(@, chunk)]

(***************************************************************************)
(* The parts of handleTlsChunk.                                            *)
(***************************************************************************)
\* Faulty variant: the lookup never finds the stream.
streamExistsNever(reg, key) == FALSE

\* stream, streamExists := p.streams[key]
streamExists(reg, key) == key \in DOMAIN reg

CreateSteps ==
    << "NewTlsStream", "NextId", "Store", "streams[key]", "client", "server" >>

\* What holds just after a statement of the handler: whether the key is in
\* p.streams, whether the stream is in the shared table, and which of the
\* stream's fields are set.
Snapshot(step, reg, sm, key, stream) ==
    [ step       |-> step,
      registered |-> key \in DOMAIN reg,
      stored     |-> stream.id \in DOMAIN sm.table,
      id         |-> stream.id,
      client     |-> stream.client.set,
      server     |-> stream.server.set ]

\* Faulty variant: the stream is not stored in the shared table.
createStreamNoStore(reg, hp, sm, key, address) ==
    LET ref    == Len(hp) + 1
        sm1    == NextId(sm)
        stream == [NewTlsStream(key) EXCEPT
                     !.id = sm1.streamId,
                     !.client = NewTlsReader(buildTcpId(address, TRUE), TRUE),
                     !.server = NewTlsReader(buildTcpId(address, FALSE), FALSE)]
        reg1   == MapPut(reg, key, ref)
    IN  [ streams    |-> reg1,
          heap       |-> Append(hp, stream),
          streamsMap |-> sm1,
          ref        |-> ref,
          steps      |-> CreateSteps,
          trace      |-> << Snapshot("server", reg1, sm1, key, stream) >> ]

\* The body of "if !streamExists": a new stream, its id, its two readers.
\* Faulty variant: the server reader is not constructed.
createStreamNoServer(reg, hp, sm, key, address) ==
    LET ref  == Len(hp) + 1
        s0   == NewTlsStream(key)
        sm1  == NextId(sm)
        s1   == [s0 EXCEPT !.id = sm1.streamId]
        sm2  == Store(sm1, s1.id, ref)
        reg1 == MapPut(reg, key, ref)
        s2   == [s1 EXCEPT
                   !.client = NewTlsReader(buildTcpId(address, TRUE), TRUE)]
    IN  [ streams    |-> reg1,
          heap       |-> Append(hp, s2),
          streamsMap |-> sm2,
          ref        |-> ref,
          steps      |-> CreateSteps,
          trace      |-> << Snapshot(CreateSteps[1], reg, sm, key, s0),
                            Snapshot(CreateSteps[2], reg, sm1, key, s1),
                            Snapshot(CreateSteps[3], reg, sm2, key, s1),
                            Snapshot(CreateSteps[4], reg1, sm2, key, s1),
                            Snapshot(CreateSteps[5], reg1, sm2, key, s2) >> ]

\* Faulty variant: the stream is stored in the shared table last.
createStreamStoreLast(reg, hp, sm, key, address) ==
    LET ref  == Len(hp) + 1
        s0   == NewTlsStream(key)
        sm1  == NextId(sm)
        s1   == [s0 EXCEPT !.id = sm1.streamId]
        reg1 == MapPut(reg, key, ref)
        s2   == [s1 EXCEPT
                   !.client = NewTlsReader(buildTcpId(address, TRUE), TRUE)]
        s3   == [s2 EXCEPT
                   !.server = NewTlsReader(buildTcpId(address, FALSE), FALSE)]
        sm2  == Store(sm1, s1.id, ref)
    IN  [ streams    |-> reg1,
          heap       |-> Append(hp, s3),
          streamsMap |-> sm2,
          ref        |-> ref,
          steps      |-> CreateSteps,
          trace      |-> << Snapshot(CreateSteps[1], reg, sm, key, s0),
                            Snapshot(CreateSteps[2], reg, sm1, key, s1),
                            Snapshot(CreateSteps[4], reg1, sm1, key, s1),
                            Snapshot(CreateSteps[5], reg1, sm1, key, s2),
                            Snapshot(CreateSteps[6], reg1, sm1, key, s3),
                            Snapshot(CreateSteps[3], reg1, sm2, key, s3) >> ]

\* trace: the snapshot after each of its statements, in program order.
createStream(reg, hp, sm, key, address) ==
    LET ref  == Len(hp) + 1
        s0   == NewTlsStream(key)
        sm1  == NextId(sm)
        s1   == [s0 EXCEPT !.id = sm1.streamId]
        sm2  == Store(sm1, s1.id, ref)
        reg1 == MapPut(reg, key, ref)
        s2   == [s1 EXCEPT
                   !.client = NewTlsReader(buildTcpId(address, TRUE), TRUE)]
        s3   == [s2 EXCEPT
                   !.server = NewTlsReader(buildTcpId(address, FALSE), FALSE)]
    IN  [ streams    |-> reg1,
          heap       |-> Append(hp, s3),
          streamsMap |-> sm2,
          ref        |-> ref,
          steps      |-> CreateSteps,
          trace      |-> << Snapshot(CreateSteps[1], reg, sm, key, s0),
                            Snapshot(CreateSteps[2], reg, sm1, key, s1),
                            Snapshot(CreateSteps[3], reg, sm2, key, s1),
                            Snapshot(CreateSteps[4], reg1, sm2, key, s1),
                            Snapshot(CreateSteps[5], reg1, sm2, key, s2),
                            Snapshot(CreateSteps[6], reg1, sm2, key, s3) >> ]

(***************************************************************************)
(* The perf reader and the records it returns.                             *)
(***************************************************************************)
\* binary.Size of tracerTlsChunk: seven uint32, the quad, 4096 data bytes.
ChunkSize == 7 * 4 + (4 + 4 + 2 + 2) + 4096

ErrClosed == "perf.ErrClosed"
ErrOther  == "read error"

\* The errors Read can return: ErrClosed only once the reader is closed.
ReadErrors(closed) == IF closed THEN {ErrClosed, ErrOther} ELSE {ErrOther}

\* The records Read can return: a lost-sample count, and a raw sample of
\* some length that holds the bytes of a chunk when it is long enough.
Records ==
    { [LostSamples |-> l, len |-> n, data |-> NoChunk] :
        l \in {0, 2}, n \in {0, ChunkSize - 1} }
    \cup
    { [LostSamples |-> l, len |-> ChunkSize, data |-> c] :
        l \in {0, 2}, c \in Chunks }

NoRead == [kind |-> "none", err |-> "", LostSamples |-> 0, len |-> 0]

\* binary.Read(buffer, binary.LittleEndian, &chunk): fails on a short buffer.
binaryRead(record) ==
    IF record.len < ChunkSize
    THEN [err |-> TRUE, chunk |-> NoChunk]
    ELSE [err |-> FALSE, chunk |-> record.data]

(***************************************************************************)
(* pollChunksPerfBuffer.                                                   *)
(***************************************************************************)
\* Faulty variant: ErrClosed is logged too.
onReadErrorLogAll(err) ==
    [close |-> TRUE, logged |-> TRUE, pc |-> "done"]

\* if err != nil: close(chunks); log unless ErrClosed; return
onReadError(err) ==
    [close |-> TRUE, logged |-> err # ErrClosed, pc |-> "done"]

\* Faulty variant: the lost-sample count is not looked at.
onRecordIgnoreLost(record) ==
    LET dec == binaryRead(record)
    IN  IF dec.err
        THEN [logged |-> "parse", pc |-> "read", chunk |-> NoChunk]
        ELSE [logged |-> "", pc |-> "send", chunk |-> dec.chunk]

\* Faulty variant: the task does not wait for the chunk to be received.
onRecordNoWait(record) ==
    IF record.LostSamples # 0
    THEN [logged |-> "lost", pc |-> "read", chunk |-> NoChunk]
    ELSE LET dec == binaryRead(record)
         IN  IF dec.err
             THEN [logged |-> "parse", pc |-> "read", chunk |-> NoChunk]
             ELSE [logged |-> "", pc |-> "read", chunk |-> dec.chunk]

\* The rest of the loop body: lost samples, decoding, the send.
onRecord(record) ==
    IF record.LostSamples # 0
    THEN [logged |-> "lost", pc |-> "read", chunk |-> NoChunk]
    ELSE LET dec == binaryRead(record)
         IN  IF dec.err
             THEN [logged |-> "parse", pc |-> "read", chunk |-> NoChunk]
             ELSE [logged |-> "", pc |-> "send", chunk |-> dec.chunk]

Logged(lg, line) == IF line = "" THEN lg ELSE Append(lg, line)

\* Read() returns an error.
ReadError ==
    /\ ipc = "read"
    /\ \E err \in ReadErrors(readerClosed) :
         LET r == onReadError(err)
         IN  /\ lastRead' = [NoRead EXCEPT !.kind = "error", !.err = err]
             /\ chunksClosed' = (chunksClosed \/ r.close)
             /\ closeCalls' = IF r.close THEN closeCalls + 1 ELSE closeCalls
             /\ log' = Logged(log, IF r.logged THEN "readerr" ELSE "")
             /\ ipc' = r.pc
    /\ UNCHANGED << readerClosed, reads, sending, ppc, streams, heap, streamsMap,
                    closeStreams, waiting, sent, handoff, lastOp, created,
                    cacheVars >>

\* Faulty variant: the ingestion task itself drops the flow of the chunk it
\* decoded from p.streams.
ReadRecordWritesStreams ==
    /\ ipc = "read"
    /\ ~readerClosed
    /\ reads < MaxReads
    /\ \E record \in Records :
         LET r == onRecord(record)
         IN  /\ lastRead' = [NoRead EXCEPT !.kind = "record",
                                           !.LostSamples = record.LostSamples,
                                           !.len = record.len]
             /\ log' = Logged(log, r.logged)
             /\ ipc' = r.pc
             /\ sending' = r.chunk
             /\ handoff' = IF r.pc = "send"
                           THEN [handoff EXCEPT !.decoded = Append(@, r.chunk)]
                           ELSE handoff
             /\ streams' = IF r.pc = "send"
                           THEN MapDelete(streams,
                                          buildTlsKey(getAddressPair(r.chunk),
                                                      isRequest(r.chunk)))
                           ELSE streams
    /\ reads' = reads + 1
    /\ UNCHANGED << readerClosed, chunksClosed, closeCalls, ppc, heap,
                    streamsMap, closeStreams, waiting, sent, lastOp, created,
                    cacheVars >>

\* Read() returns a record.
ReadRecord ==
    /\ ipc = "read"
    /\ ~readerClosed
    /\ reads < MaxReads
    /\ \E record \in Records :
         LET r == onRecord(record)
         IN  /\ lastRead' = [NoRead EXCEPT !.kind = "record",
                                           !.LostSamples = record.LostSamples,
                                           !.len = record.len]
             /\ log' = Logged(log, r.logged)
             /\ ipc' = r.pc
             /\ sending' = r.chunk
             /\ handoff' = IF r.pc = "send"
                           THEN [handoff EXCEPT !.decoded = Append(@, r.chunk)]
                           ELSE handoff
    /\ reads' = reads + 1
    /\ UNCHANGED << readerClosed, chunksClosed, closeCalls, ppc, streams, heap,
                    streamsMap, closeStreams, waiting, sent, lastOp, created,
                    cacheVars >>

pollChunksPerfBuffer == ReadError \/ ReadRecord

(***************************************************************************)
(* close.                                                                  *)
(***************************************************************************)
close ==
    /\ ~readerClosed
    /\ readerClosed' = TRUE
    /\ UNCHANGED << reads, lastRead, ipc, sending, chunksClosed, closeCalls, ppc,
                    streams, heap, streamsMap, closeStreams, waiting, sent,
                    handoff, log, lastOp, created, cacheVars >>

(***************************************************************************)
(* poll.                                                                   *)
(***************************************************************************)
NoOp ==
    [ op |-> "none", chunk |-> NoChunk, key |-> "", ref |-> 0, side |-> "",
      created |-> FALSE, steps |-> << >>, trace |-> << >> ]

\* Faulty variant: the closed channel does not end the loop.
pollOnRecvNeverReturns(ok) == "select"

\* Faulty variant: the loop ends after any receive from chunks.
pollOnRecvAlwaysReturns(ok) == "done"

\* case chunk, ok := <-chunks: if !ok { return }
pollOnRecv(ok) == IF ok THEN "select" ELSE "done"

\* Faulty variant: the teardown empties the registry.
deleteAll(reg, key) == EmptyMap

\* case key := <-p.closeStreams: delete(p.streams, key)
deleteStream(reg, key) == MapDelete(reg, key)

\* chunks := make(chan *tracerTlsChunk); go p.pollChunksPerfBuffer(chunks)
PollStart ==
    /\ ppc = "start"
    /\ ppc' = "select"
    /\ ipc' = "read"
    /\ log' = Append(log, "start")
    /\ UNCHANGED << readerClosed, reads, lastRead, sending, chunksClosed,
                    closeCalls, streams, heap, streamsMap, closeStreams, waiting,
                    sent, handoff, lastOp, created, cacheVars >>

\* handleTlsChunk: the key, the stream looked up or created, the dispatch.
\* It always returns nil.
handleTlsChunk(chunk) ==
    \E address \in {getAddressPair(chunk)} :
    \E key \in {buildTlsKey(address, isRequest(chunk))} :
    \E exists \in {streamExists(streams, key)} :
    \E st \in { IF exists
                THEN [ streams |-> streams, heap |-> heap,
                       streamsMap |-> streamsMap, ref |-> streams[key],
                       steps |-> << >>, trace |-> << >> ]
                ELSE createStream(streams, heap, streamsMap, key, address) } :
    \E side \in {getReader(chunk)} :
        /\ streams' = st.streams
        /\ heap' = [st.heap EXCEPT ![st.ref][side] = newChunk(@, chunk)]
        /\ streamsMap' = st.streamsMap
        /\ created' = IF exists THEN created
                      ELSE [created EXCEPT ![key] = @ + 1]
        /\ lastOp' = [ op |-> "chunk", chunk |-> chunk, key |-> key,
                       ref |-> st.ref, side |-> side, created |-> ~exists,
                       steps |-> st.steps \o << "getReader", "newChunk" >>,
                       trace |-> Append(st.trace,
                                        Snapshot("newChunk", st.streams,
                                                 st.streamsMap, key,
                                                 st.heap[st.ref])) ]

\* The select receives a chunk: the rendezvous with the blocked sender.
\* The error handleTlsChunk returns is nil, so nothing is logged.
PollRecvChunk ==
    /\ ppc = "select"
    /\ ipc = "send"
    /\ handleTlsChunk(sending)
    /\ ppc' = pollOnRecv(TRUE)
    /\ ipc' = "read"
    /\ sending' = NoChunk
    /\ handoff' = [handoff EXCEPT !.handled = Append(@, sending)]
    /\ UNCHANGED << readerClosed, reads, lastRead, chunksClosed, closeCalls,
                    closeStreams, waiting, sent, log, cacheVars >>

\* The select receives from the closed channel.
PollRecvClosed ==
    /\ ppc = "select"
    /\ chunksClosed
    /\ ppc' = pollOnRecv(FALSE)
    /\ lastOp' = [NoOp EXCEPT !.op = "closed"]
    /\ UNCHANGED << readerClosed, reads, lastRead, ipc, sending, chunksClosed,
                    closeCalls, streams, heap, streamsMap, closeStreams, waiting,
                    sent, handoff, log, created, cacheVars >>

\* Faulty variant: teardown notifications are consumed after poll returned.
PollTeardownAfterReturn ==
    /\ closeStreams # << >>
    /\ LET key == Head(closeStreams).key
       IN  /\ streams' = deleteStream(streams, key)
           /\ created' = [created EXCEPT ![key] = 0]
           /\ lastOp' = [NoOp EXCEPT !.op = "teardown", !.key = key]
    /\ closeStreams' = IF waiting = << >>
                       THEN Tail(closeStreams)
                       ELSE Append(Tail(closeStreams), Head(waiting))
    /\ waiting' = IF waiting = << >> THEN << >> ELSE Tail(waiting)
    /\ UNCHANGED << readerClosed, reads, lastRead, ipc, sending, chunksClosed,
                    closeCalls, ppc, heap, streamsMap, sent, handoff, log,
                    cacheVars >>

\* The select receives a teardown notification.  The receive from a full
\* channel makes room for the oldest blocked send, which completes with it.
PollTeardown ==
    /\ ppc = "select"
    /\ closeStreams # << >>
    /\ LET key == Head(closeStreams).key
       IN  /\ streams' = deleteStream(streams, key)
           /\ created' = [created EXCEPT ![key] = 0]
           /\ lastOp' = [NoOp EXCEPT !.op = "teardown", !.key = key]
    /\ closeStreams' = IF waiting = << >>
                       THEN Tail(closeStreams)
                       ELSE Append(Tail(closeStreams), Head(waiting))
    /\ waiting' = IF waiting = << >> THEN << >> ELSE Tail(waiting)
    /\ UNCHANGED << readerClosed, reads, lastRead, ipc, sending, chunksClosed,
                    closeCalls, ppc, heap, streamsMap, sent, handoff, log,
                    cacheVars >>

poll == PollStart \/ PollRecvChunk \/ PollRecvClosed \/ PollTeardown

(***************************************************************************)
(* The external owners of the streams: p.closeStreams <- key.              *)
(***************************************************************************)
\* The owner of a stream sends the stream's key.  The channel carries the
\* key; owner, the stream it is sent for, is kept with it as history.  The
\* send on a full channel blocks.
SendTeardown ==
    /\ sent < MaxTeardowns
    /\ \E ref \in 1..Len(heap) :
         LET n == [key |-> heap[ref].key, owner |-> ref]
         IN  IF Len(closeStreams) < TlsCloseChannelBufferSize
             THEN /\ closeStreams' = Append(closeStreams, n)
                  /\ waiting' = waiting
             ELSE /\ waiting' = Append(waiting, n)
                  /\ closeStreams' = closeStreams
    /\ sent' = sent + 1
    /\ UNCHANGED << readerClosed, reads, lastRead, ipc, sending, chunksClosed,
                    closeCalls, ppc, streams, heap, streamsMap, handoff, log,
                    lastOp, created, cacheVars >>

(***************************************************************************)
(* The correlation cache: simplelru.LRU with fdCacheEvictCallback.         *)
(***************************************************************************)
fdCachedItemAvgSize == 40

fdCacheMaxItems == 500000 \div fdCachedItemAvgSize

\* simplelru.NewLRU(size, onEvict)
NewLRU(size) == [size |-> size, items |-> << >>]

\* Faulty variant: an eviction is counted twice.
fdCacheEvictCallbackTwice(counter) ==
    [ evictedCounter |-> counter + 2,
      logged |-> ((counter + 2) % 1000000 = 0) ]

\* Faulty variant: the line is logged on the counter before the increment.
fdCacheEvictCallbackLogBefore(counter) ==
    [ evictedCounter |-> counter + 1,
      logged |-> (counter % 1000000 = 0) ]

fdCacheEvictCallback(counter) ==
    [ evictedCounter |-> counter + 1,
      logged |-> ((counter + 1) % 1000000 = 0) ]

\* The position of a key in the cache, 0 when it is absent.
LruIndex(cache, key) ==
    IF \E i \in 1..Len(cache.items) : cache.items[i].key = key
    THEN CHOOSE i \in 1..Len(cache.items) : cache.items[i].key = key
    ELSE 0

Without(items, i) == SubSeq(items, 1, i - 1) \o SubSeq(items, i + 1, Len(items))

\* LRU.Add: a known key is updated and moved to the front; a new key goes to
\* the front and, past the capacity, the oldest entry is removed.
LruAdd(cache, key, value) ==
    LET i     == LruIndex(cache, key)
        entry == [key |-> key, value |-> value]
    IN  IF i # 0
        THEN [ items |-> << entry >> \o Without(cache.items, i),
               evicted |-> << >> ]
        ELSE LET grown == << entry >> \o cache.items
             IN  IF Len(grown) > cache.size
                 THEN [ items |-> SubSeq(grown, 1, Len(grown) - 1),
                        evicted |-> << grown[Len(grown)] >> ]
                 ELSE [ items |-> grown, evicted |-> << >> ]

\* LRU.Get: a hit moves the entry to the front.
LruGet(cache, key) ==
    LET i == LruIndex(cache, key)
    IN  IF i # 0
        THEN [ items |-> << cache.items[i] >> \o Without(cache.items, i),
               ok |-> TRUE, value |-> cache.items[i].value ]
        ELSE [ items |-> cache.items, ok |-> FALSE, value |-> "" ]

\* No operation yet.  used: per key, the number of the last operation that
\* inserted or found it; added: the keys inserted so far.
NoCacheOp ==
    [ op |-> "none", key |-> 0, hit |-> FALSE, evicted |-> << >>, n |-> 0,
      used |-> [k \in {} |-> 0], added |-> {} ]

\* The keys and values the inserts and lookups are tried with.
CacheKeys == 1..(MaxCacheSize + 1)

CacheValues == {"a", "b"}

CacheAdd ==
    /\ cacheOp.n < MaxCacheOps
    /\ \E in \in CacheKeys \X CacheValues :
         LET r  == LruAdd(fdCache, in[1], in[2])
             cb == fdCacheEvictCallback(evictedCounter)
         IN  /\ fdCache' = [fdCache EXCEPT !.items = r.items]
             /\ evictedCounter' = IF r.evicted # << >>
                                  THEN cb.evictedCounter
                                  ELSE evictedCounter
             /\ log' = Logged(log, IF r.evicted # << >> /\ cb.logged
                                   THEN "evicted" ELSE "")
             /\ cacheOp' = [ op |-> "add", key |-> in[1],
                             hit |-> LruIndex(fdCache, in[1]) # 0,
                             evicted |-> r.evicted, n |-> cacheOp.n + 1,
                             used |-> MapPut(cacheOp.used, in[1], cacheOp.n + 1),
                             added |-> cacheOp.added \cup {in[1]} ]
    /\ UNCHANGED << readerClosed, reads, lastRead, ipc, sending, chunksClosed,
                    closeCalls, ppc, streams, heap, streamsMap, closeStreams, waiting,
                    sent, handoff, lastOp, created >>

CacheGet ==
    /\ cacheOp.n < MaxCacheOps
    /\ \E key \in CacheKeys :
         LET r == LruGet(fdCache, key)
         IN  /\ fdCache' = [fdCache EXCEPT !.items = r.items]
             /\ cacheOp' = [ op |-> "get", key |-> key, hit |-> r.ok,
                             evicted |-> << >>, n |-> cacheOp.n + 1,
                             used |-> IF r.ok
                                      THEN MapPut(cacheOp.used, key, cacheOp.n + 1)
                                      ELSE cacheOp.used,
                             added |-> cacheOp.added ]
    /\ UNCHANGED << readerClosed, reads, lastRead, ipc, sending, chunksClosed,
                    closeCalls, ppc, streams, heap, streamsMap, closeStreams, waiting,
                    sent, handoff, log, lastOp, created, evictedCounter >>

(***************************************************************************)
(* Specifications.                                                         *)
(***************************************************************************)
\* newTlsPoller and init have run; poll has not been called yet.
InitTasks ==
    /\ readerClosed = FALSE
    /\ reads = 0
    /\ lastRead = NoRead
    /\ ipc = "idle"
    /\ sending = NoChunk
    /\ chunksClosed = FALSE
    /\ closeCalls = 0
    /\ ppc = "start"
    /\ streams = EmptyMap
    /\ heap = << >>
    /\ streamsMap = NewTcpStreamMap
    /\ closeStreams = << >>
    /\ waiting = << >>
    /\ handoff = [decoded |-> << >>, handled |-> << >>]
    /\ sent = 0
    /\ log = << >>
    /\ lastOp = NoOp
    /\ created = [k \in Keys |-> 0]

InitPoller ==
    /\ InitTasks
    /\ evictedCounter = 0
    /\ cacheOp = NoCacheOp

Init ==
    /\ InitPoller
    /\ fdCache = NewLRU(fdCacheMaxItems)

Next == pollChunksPerfBuffer \/ close \/ poll \/ SendTeardown

Spec == Init /\ [][Next]_vars

\* The two tasks run: a goroutine that can take a step eventually does, and
\* a select with a ready case eventually takes one.
FairSpec ==
    /\ Spec
    /\ WF_vars(pollChunksPerfBuffer)
    /\ WF_vars(PollRecvChunk)
    /\ WF_vars(PollRecvClosed)

\* The select does not pass over a ready teardown notification forever: it
\* chooses among its ready cases at random.  Nothing is assumed of the
\* ingestion task or of the producers.
SelectFairSpec == Spec /\ WF_vars(PollTeardown)

\* The cache alone, at small capacities and at the program's capacity.
InitCache ==
    /\ InitPoller
    /\ \E size \in (1..MaxCacheSize) \cup {fdCacheMaxItems} :
         fdCache = NewLRU(size)

NextCache == CacheAdd \/ CacheGet

SpecCache == InitCache /\ [][NextCache]_vars

\* The cache after a long run: it is full (nothing ever removes an entry but
\* an eviction), and the callback has run some number of times, here short
\* of the first and of the second million.
EvictedBefore == {0, 1000000 - 2, 2 * 1000000 - 1}

FullLRU(size) ==
    [ size |-> size,
      items |-> [i \in 1..size |-> [key |-> i, value |-> "a"]] ]

InitEvict ==
    /\ InitTasks
    /\ evictedCounter \in EvictedBefore
    /\ \E size \in 1..MaxCacheSize :
         /\ fdCache = FullLRU(size)
         /\ cacheOp = [NoCacheOp EXCEPT !.used = [k \in 1..size |-> 0],
                                        !.added = 1..size]

SpecEvict == InitEvict /\ [][NextCache]_vars

(***************************************************************************)
(* Properties.                                                             *)
(***************************************************************************)
\* The flow key of a chunk, and the chunk of the opposite direction of the
\* same TCP exchange: the quad reversed, the direction flipped.
KeyOf(chunk) == buildTlsKey(getAddressPair(chunk), isRequest(chunk))

Counterpart(chunk) ==
    [AddressInfo |-> Reverse(chunk.AddressInfo), request |-> ~chunk.request]

\* The step in which poll receives the chunk being sent and handles it.
HandlesChunk == ppc = "select" /\ ipc = "send" /\ ipc' = "read"

\* The step in which poll consumes the teardown notification at the head.
ConsumesTeardown ==
    /\ ppc = "select"
    /\ closeStreams # << >>
    /\ Len(closeStreams') + Len(waiting') = Len(closeStreams) + Len(waiting) - 1

\* The chunks a stream has been given, on both sides.
Delivered(stream) == Len(stream.client.chunks) + Len(stream.server.chunks)

\* C1: for one flow key, with no teardown of it consumed in between, the
\* chunks create one stream and call NextId and Store once: the chunk of a
\* key not in the registry creates one stream with one NextId and one Store,
\* and the chunk of a key in the registry goes to the registered stream and
\* creates and allocates nothing.
C1_OneStreamPerKey ==
    [][ /\ \A k \in Keys : created'[k] <= 1
        /\ HandlesChunk =>
             LET key == KeyOf(sending)
                 ref == lastOp'.ref
                 side == getReader(sending)
             IN  IF key \in DOMAIN streams
                 THEN /\ streams' = streams
                      /\ streamsMap' = streamsMap
                      /\ Len(heap') = Len(heap)
                      /\ ref = streams[key]
                      /\ heap'[ref][side].chunks =
                           Append(heap[ref][side].chunks, sending)
                 ELSE /\ Len(heap') = Len(heap) + 1
                      /\ ref = Len(heap')
                      /\ streams'[key] = ref
                      /\ streamsMap'.nextIdCalls = streamsMap.nextIdCalls + 1
                      /\ streamsMap'.storeCalls = streamsMap.storeCalls + 1
                      /\ heap'[ref][side].chunks = << sending >>
      ]_vars

\* Three chunks of one key were handled with a single allocation.
C1_Witness ==
    /\ lastOp.op = "chunk"
    /\ ~lastOp.created
    /\ Delivered(heap[lastOp.ref]) = 3
    /\ streamsMap.nextIdCalls = 1
    /\ streamsMap.storeCalls = 1

\* C2: once the reader is closed (and poll is running), the ingestion task
\* ends, the chunks channel is closed and poll returns, whatever is left in
\* the teardown channel; and after poll has returned the registry is never
\* changed.
C2_Shutdown ==
    /\ (readerClosed /\ ppc # "start")
          ~> (ipc = "done" /\ chunksClosed /\ ppc = "done")
    /\ [][ppc = "done" => (streams' = streams /\ ppc' = "done")]_vars

\* poll has returned after a close, with a teardown notification unconsumed.
C2_Witness ==
    /\ readerClosed
    /\ lastRead.err = ErrClosed
    /\ ppc = "done"
    /\ closeStreams # << >>
    /\ streams # EmptyMap

\* C3: the key built from a quad as a request equals the key built from the
\* reversed quad as a response, so the key handleTlsChunk computed for a
\* chunk is the key of the chunk of the other direction of its exchange.
C3_KeySymmetry ==
    /\ \A q \in Quads :
         buildTlsKey(getAddressPair([AddressInfo |-> q, request |-> TRUE]), TRUE)
           = buildTlsKey(getAddressPair([AddressInfo |-> Reverse(q),
                                         request |-> FALSE]), FALSE)
    /\ lastOp.op = "chunk" => lastOp.key = KeyOf(Counterpart(lastOp.chunk))

\* A response chunk was handled under the key of its exchange's request.
C3_Witness ==
    /\ lastOp.op = "chunk"
    /\ ~lastOp.chunk.request
    /\ lastOp.key = "10.0.0.2:443>10.0.0.1:5000"

\* The identity {src, dst} of one side of an exchange, as text.
Identity(srcIp, srcPort, dstIp, dstPort) ==
    [ SrcIP |-> IpString(srcIp), DstIP |-> IpString(dstIp),
      SrcPort |-> FormatUint(srcPort), DstPort |-> FormatUint(dstPort) ]

\* The identity client -> server of the exchange a chunk belongs to: a
\* request chunk travels client -> server, a response chunk server -> client.
ClientIdentity(chunk) ==
    LET a == getAddressPair(chunk)
    IN  IF chunk.request
        THEN Identity(a.srcIp, a.srcPort, a.dstIp, a.dstPort)
        ELSE Identity(a.dstIp, a.dstPort, a.srcIp, a.srcPort)

ServerIdentity(chunk) ==
    LET a == getAddressPair(chunk)
    IN  IF chunk.request
        THEN Identity(a.dstIp, a.dstPort, a.srcIp, a.srcPort)
        ELSE Identity(a.srcIp, a.srcPort, a.dstIp, a.dstPort)

\* C4: the stream of an exchange has its client context bound to
\* {src = client, dst = server} and its server context to {src = server,
\* dst = client}, whichever chunk of the exchange created the stream.
C4_ContextIdentities ==
    lastOp.op = "chunk" =>
        /\ heap[lastOp.ref].client.tcpID = ClientIdentity(lastOp.chunk)
        /\ heap[lastOp.ref].server.tcpID = ServerIdentity(lastOp.chunk)

\* C5: consuming the teardown of key K removes K's entry and nothing else
\* (the other entries, the streams, the shared table and the allocator are
\* as before); the next chunk of K creates a new stream whose identity
\* differs from that of every earlier stream.
C5_TeardownFrame ==
    [][ /\ ConsumesTeardown =>
             LET K == Head(closeStreams).key
             IN  /\ DOMAIN streams' = (DOMAIN streams) \ {K}
                 /\ \A k \in DOMAIN streams' : streams'[k] = streams[k]
                 /\ heap' = heap
                 /\ streamsMap' = streamsMap
        /\ (HandlesChunk /\ KeyOf(sending) \notin DOMAIN streams) =>
             LET K == KeyOf(sending)
             IN  /\ Len(heap') = Len(heap) + 1
                 /\ streams'[K] = Len(heap')
                 /\ heap'[Len(heap')].key = K
                 /\ \A r \in 1..Len(heap) : heap'[Len(heap')].id # heap[r].id
                 /\ \A k \in DOMAIN streams : streams'[k] = streams[k]
      ]_vars

\* A key was torn down while another flow was registered, and a later chunk
\* of the key created a second stream for it.
C5_Witness ==
    /\ lastOp.op = "chunk"
    /\ lastOp.created
    /\ \E r \in 1..Len(heap) : r # lastOp.ref /\ heap[r].key = lastOp.key
    /\ Cardinality(DOMAIN streams) = 2

\* C6: every key of the registry maps to one stream, which is in the shared
\* table under its own identity; no two entries hold streams of one identity.
C6_RegistryInvariant ==
    /\ \A k \in DOMAIN streams :
         /\ streams[k] \in 1..Len(heap)
         /\ heap[streams[k]].key = k
         /\ heap[streams[k]].id \in DOMAIN streamsMap.table
         /\ streamsMap.table[heap[streams[k]].id] = streams[k]
    /\ \A k1, k2 \in DOMAIN streams :
         k1 # k2 => heap[streams[k1]].id # heap[streams[k2]].id

\* Two flows are registered, one of them for the second time.
C6_Witness ==
    /\ Cardinality(DOMAIN streams) = 2
    /\ Len(heap) = 3

\* The number of times a line is in the log.
Count(lg, line) == Cardinality({i \in 1..Len(lg) : lg[i] = line})

\* C7: a record with lost samples, or one whose bytes do not decode, puts no
\* chunk on the chunks channel and does not end the loop: while it is the
\* last thing read, the ingestion task is back at Read with nothing to send
\* and the channel is open.
C7_DroppedRecords ==
    (lastRead.kind = "record" /\ (lastRead.LostSamples # 0 \/ lastRead.len < ChunkSize))
        => (ipc = "read" /\ sending = NoChunk /\ ~chunksClosed /\ closeCalls = 0)

\* The last of three records has lost samples and bytes that would decode.
C7_Witness ==
    /\ lastRead.kind = "record"
    /\ lastRead.LostSamples # 0
    /\ lastRead.len = ChunkSize
    /\ reads = 3
    /\ Count(log, "lost") = 1
    /\ Count(log, "parse") = 1

\* C8: on an error of Read the ingestion task closes the chunks channel once
\* and returns: it reads nothing more and sends nothing; the error is logged
\* exactly when it is not ErrClosed.
C8_ReadError ==
    [][ /\ lastRead'.kind = "error" =>
             /\ ipc' = "done"
             /\ chunksClosed'
             /\ closeCalls' = 1
             /\ sending' = NoChunk
             /\ Count(log', "readerr") = IF lastRead'.err = ErrClosed THEN 0 ELSE 1
        /\ ipc = "done" =>
             /\ ipc' = "done"
             /\ reads' = reads
             /\ lastRead' = lastRead
             /\ closeCalls' = closeCalls
             /\ sending' = sending
        /\ chunksClosed' => ipc' # "send"
      ]_vars

\* The reader failed with another error after a record was read.
C8_Witness ==
    /\ lastRead.kind = "error"
    /\ lastRead.err = ErrOther
    /\ reads >= 1
    /\ ipc = "done"
    /\ ppc = "done"

ScenarioKey == "10.0.0.1:5000>10.0.0.2:443"

\* The chunks of the scenario's exchange: client 10.0.0.1:5000, server
\* 10.0.0.2:443; the request travels client -> server, the response back.
ScenarioChunk(chunk) ==
    LET a == getAddressPair(chunk)
        client == IF chunk.request THEN << a.srcIp, a.srcPort >>
                                   ELSE << a.dstIp, a.dstPort >>
    IN  client = << << 10, 0, 0, 1 >>, 5000 >>

\* C9: the request chunk and the response chunk of an exchange resolve to
\* one registry entry (ScenarioKey for the scenario's exchange), and a chunk
\* is given to exactly one context of that stream: the client context when
\* it is a request, the server context otherwise.
C9_Routing ==
    [][ HandlesChunk =>
          LET chunk == sending
              key == lastOp'.key
              ref == lastOp'.ref
              old == IF ref <= Len(heap) THEN heap[ref] ELSE NewTlsStream(key)
          IN  /\ key = KeyOf(Counterpart(chunk))
              /\ ScenarioChunk(chunk) => key = ScenarioKey
              /\ key \in DOMAIN streams => ref = streams[key]
              /\ streams'[key] = ref
              /\ heap'[ref].client.isClient /\ ~heap'[ref].server.isClient
              /\ heap'[ref].client.chunks =
                    IF chunk.request THEN Append(old.client.chunks, chunk)
                                     ELSE old.client.chunks
              /\ heap'[ref].server.chunks =
                    IF chunk.request THEN old.server.chunks
                                     ELSE Append(old.server.chunks, chunk)
      ]_vars

\* The scenario: chunk A, a request, then chunk B, the response, both under
\* ScenarioKey in one stream, A in the client context and B in the server's.
C9_Witness ==
    /\ lastOp.op = "chunk"
    /\ lastOp.key = ScenarioKey
    /\ ~lastOp.chunk.request
    /\ ~lastOp.created
    /\ Len(heap) = 1
    /\ Len(heap[1].client.chunks) = 1 /\ heap[1].client.chunks[1].request
    /\ Len(heap[1].server.chunks) = 1 /\ ~heap[1].server.chunks[1].request

\* The keys in the cache.
CachedKeys(cache) == {cache.items[i].key : i \in 1..Len(cache.items)}

\* C10: the cache never holds more than its capacity (12500 in the program);
\* inserting a new key into a full cache evicts one entry, the least
\* recently used, and adds 1 to the eviction counter; nothing else changes
\* the counter, and while at most capacity-many distinct keys have been
\* inserted nothing is evicted.
C10_CacheBound ==
    /\ fdCacheMaxItems = 12500
    /\ [][ /\ Len(fdCache'.items) <= fdCache'.size
           /\ Cardinality(CachedKeys(fdCache')) = Len(fdCache'.items)
           /\ fdCache'.size = fdCache.size
           /\ IF /\ cacheOp'.op = "add"
                 /\ cacheOp'.key \notin CachedKeys(fdCache)
                 /\ Len(fdCache.items) = fdCache.size
              THEN \E victim \in CachedKeys(fdCache) :
                     /\ \A k \in CachedKeys(fdCache) :
                          cacheOp.used[victim] <= cacheOp.used[k]
                     /\ CachedKeys(fdCache') =
                          (CachedKeys(fdCache) \ {victim}) \cup {cacheOp'.key}
                     /\ evictedCounter' = evictedCounter + 1
              ELSE /\ evictedCounter' = evictedCounter
                   /\ CachedKeys(fdCache) \subseteq CachedKeys(fdCache')
           /\ Cardinality(cacheOp'.added) <= fdCache'.size => evictedCounter' = 0
         ]_vars

\* A full cache of capacity 2 evicted key 2 and kept the older key 1, which
\* a lookup had used since.
C10_Witness ==
    /\ fdCache.size = 2
    /\ cacheOp.op = "add"
    /\ cacheOp.evicted # << >>
    /\ cacheOp.evicted[1].key = 2
    /\ 1 \in CachedKeys(fdCache)
    /\ cacheOp.added = {1, 2, 3}
    /\ evictedCounter = 1


\* C11: the eviction counter never decreases; it changes only when an insert
\* evicts an entry, and then by exactly 1; and the step appends the line
\* "evicted" to the log exactly when the counter after the increment is a
\* multiple of 1,000,000 (nothing at 999,999, one line at 1,000,000).
C11_EvictionCounter ==
    [][ LET evicts == cacheOp'.n # cacheOp.n /\ cacheOp'.evicted # << >>
        IN  /\ evictedCounter' >= evictedCounter
            /\ evicts => evictedCounter' = evictedCounter + 1
            /\ ~evicts => (evictedCounter' = evictedCounter /\ log' = log)
            /\ (evicts /\ evictedCounter' % 1000000 = 0)
                  => log' = Append(log, "evicted")
            /\ (evicts /\ evictedCounter' % 1000000 # 0) => log' = log
            /\ evictedCounter' = 999999 => log' = log
      ]_vars

\* The counter went past 1,000,000 and the line was logged once.
C11_Witness ==
    /\ evictedCounter = 1000001
    /\ cacheOp.evicted # << >>
    /\ Count(log, "evicted") = 1


\* C12: p.streams has one writer, the poll task: a step that changes the
\* registry is a step of poll at its select, handling the chunk received or
\* consuming a teardown notification; it is not a read of the ingestion
\* task, not a send of a teardown producer and not a close.  Keys are added
\* only by the chunk handler and removed only by the teardown case.
C12_SingleWriter ==
    [][ /\ streams' # streams =>
             /\ ppc = "select"
             /\ HandlesChunk \/ ConsumesTeardown
             /\ reads' = reads
             /\ lastRead' = lastRead
             /\ sent' = sent
             /\ readerClosed' = readerClosed
        /\ (DOMAIN streams') \ (DOMAIN streams) # {} => HandlesChunk
        /\ (DOMAIN streams) \ (DOMAIN streams') # {} => ConsumesTeardown
      ]_vars

\* poll has added two keys and removed one, with the ingestion task blocked
\* on a send and another teardown notification in the channel.
C12_Witness ==
    /\ lastOp.op = "teardown"
    /\ Len(heap) = 2
    /\ Cardinality(DOMAIN streams) = 1
    /\ ipc = "send"
    /\ closeStreams # << >>


\* The number of statements of a handler run that set a reader field which
\* was not set before them.
Built(trace, field) ==
    Cardinality({i \in 2..Len(trace) : trace[i][field] /\ ~trace[i-1][field]})

\* A reader as constructed, whatever chunks it was given since.
AsBuilt(reader) == [reader EXCEPT !.chunks = << >>]

\* C13: the two readers of a stream are each constructed exactly once: the
\* handler run that creates the stream sets each of them once, a run for a
\* registered stream sets none, and no step replaces a reader of an
\* existing stream (its chunks only grow).  Both are set when the chunk is
\* dispatched, and every stream of a finished run has both.
C13_ReadersOnce ==
    [][ /\ HandlesChunk =>
             LET t == lastOp'.trace
                 n == IF lastOp'.created THEN 1 ELSE 0
             IN  /\ Built(t, "client") = n
                 /\ Built(t, "server") = n
                 /\ t[Len(t)].step = "newChunk"
                 /\ t[Len(t)].client /\ t[Len(t)].server
                 /\ lastOp'.created => ~t[1].client /\ ~t[1].server
        /\ Len(heap') >= Len(heap)
        /\ \A r \in 1..Len(heap) :
             /\ AsBuilt(heap'[r].client) = AsBuilt(heap[r].client)
             /\ AsBuilt(heap'[r].server) = AsBuilt(heap[r].server)
             /\ Len(heap'[r].client.chunks) >= Len(heap[r].client.chunks)
             /\ Len(heap'[r].server.chunks) >= Len(heap[r].server.chunks)
        /\ \A r \in 1..Len(heap') :
             /\ heap'[r].client.set /\ heap'[r].client.isClient
             /\ heap'[r].server.set /\ ~heap'[r].server.isClient
      ]_vars

\* A registered stream was given chunks on both of its readers, the second
\* by a later handler run than the one that created it.
C13_Witness ==
    /\ lastOp.op = "chunk"
    /\ ~lastOp.created
    /\ heap[lastOp.ref].client.chunks # << >>
    /\ heap[lastOp.ref].server.chunks # << >>


\* The first statement of a handler run after which a snapshot field holds.
FirstWith(trace, P(_)) ==
    CHOOSE i \in 1..Len(trace) :
        P(trace[i]) /\ \A j \in 1..(i - 1) : ~P(trace[j])

\* C14 (as stated): in the run that creates a stream the key is put in
\* p.streams only after the identity was requested, the stream stored in the
\* shared table and both readers constructed: after no statement of the
\* run is the key in p.streams with a reader of its stream not set.
C14_CreationOrder ==
    (lastOp.op = "chunk" /\ lastOp.created) =>
        \A i \in 1..Len(lastOp.trace) :
            LET at == lastOp.trace[i]
            IN  at.registered =>
                    /\ at.id # 0
                    /\ at.stored
                    /\ at.client
                    /\ at.server

\* C14 (amended): in the run that creates a stream the statements take
\* effect in this order: the identity is requested, the stream is stored in
\* the shared table, the key is put in p.streams, the client reader and then
\* the server reader are constructed, and only then is the chunk
\* dispatched.  Once the run has finished, every key in p.streams maps to a
\* stream with its identity, its place in the shared table and both readers.
C14_CreationOrderAmended ==
    /\ (lastOp.op = "chunk" /\ lastOp.created) =>
          LET t == lastOp.trace
              HasId(at)      == at.id # 0
              IsStored(at)   == at.stored
              IsRegistered(at) == at.registered
              HasClient(at)  == at.client
              HasServer(at)  == at.server
              IsDispatch(at) == at.step = "newChunk"
          IN  /\ FirstWith(t, HasId) < FirstWith(t, IsStored)
              /\ FirstWith(t, IsStored) < FirstWith(t, IsRegistered)
              /\ FirstWith(t, IsRegistered) < FirstWith(t, HasClient)
              /\ FirstWith(t, HasClient) < FirstWith(t, HasServer)
              /\ FirstWith(t, HasServer) < FirstWith(t, IsDispatch)
              /\ FirstWith(t, IsDispatch) = Len(t)
    /\ \A k \in DOMAIN streams :
          LET stream == heap[streams[k]]
          IN  /\ stream.id # 0
              /\ stream.id \in DOMAIN streamsMap.table
              /\ streamsMap.table[stream.id] = streams[k]
              /\ stream.client.set
              /\ stream.server.set

\* A second stream was created while the first was still registered.
C14_Witness ==
    /\ lastOp.op = "chunk"
    /\ lastOp.created
    /\ Len(heap) = 2
    /\ Cardinality(DOMAIN streams) = 2


\* What one run of handleTlsChunk makes of the registry, the streams and the
\* shared table, and the stream it gives the chunk to.
AfterChunk(reg, hp, sm, chunk) ==
    LET address == getAddressPair(chunk)
        key     == buildTlsKey(address, isRequest(chunk))
        st      == IF streamExists(reg, key)
                   THEN [ streams |-> reg, heap |-> hp, streamsMap |-> sm,
                          ref |-> reg[key] ]
                   ELSE createStream(reg, hp, sm, key, address)
        side    == getReader(chunk)
    IN  [ streams    |-> st.streams,
          heap       |-> [st.heap EXCEPT ![st.ref][side] = newChunk(@, chunk)],
          streamsMap |-> st.streamsMap,
          ref        |-> st.ref ]

\* poll is at its select with a chunk to receive and a teardown to consume.
BothReady == ppc = "select" /\ ipc = "send" /\ closeStreams # << >>

\* The outcome of the two cases taken one after the other, in either order.
ChunkFirst ==
    LET a == AfterChunk(streams, heap, streamsMap, sending)
    IN  [a EXCEPT !.streams = deleteStream(@, Head(closeStreams).key)]

TeardownFirst ==
    AfterChunk(deleteStream(streams, Head(closeStreams).key), heap, streamsMap,
               sending)

\* C15 (as stated): with a chunk and a teardown both ready, handling them
\* in either order gives the same registry, the same streams and identity
\* allocations, and the same stream for the chunk.
C15_OrderIrrelevant == BothReady => ChunkFirst = TeardownFirst

\* C15 (amended): with a chunk and a teardown both ready, the two orders
\* give the same registry, streams, identity allocations and routing when
\* the teardown is for another flow key than the chunk's; when it is for the
\* chunk's key they do not (the teardown taken last leaves the key out of
\* the registry, the chunk taken last leaves it in).  The outcomes compared
\* are those of the steps poll takes.
C15_OrderIrrelevantAmended ==
    [][ /\ BothReady =>
             IF KeyOf(sending) # Head(closeStreams).key
             THEN ChunkFirst = TeardownFirst
             ELSE /\ KeyOf(sending) \notin DOMAIN ChunkFirst.streams
                  /\ KeyOf(sending) \in DOMAIN TeardownFirst.streams
        /\ HandlesChunk =>
             LET a == AfterChunk(streams, heap, streamsMap, sending)
             IN  /\ streams' = a.streams
                 /\ heap' = a.heap
                 /\ streamsMap' = a.streamsMap
                 /\ lastOp'.ref = a.ref
        /\ ConsumesTeardown =>
             /\ streams' = deleteStream(streams, Head(closeStreams).key)
             /\ heap' = heap
             /\ streamsMap' = streamsMap
      ]_vars

\* A chunk of an unregistered key and the teardown of another, registered
\* key are both ready.
C15_Witness ==
    /\ BothReady
    /\ KeyOf(sending) # Head(closeStreams).key
    /\ KeyOf(sending) \notin DOMAIN streams
    /\ Head(closeStreams).key \in DOMAIN streams


\* One sequence begins with the other.
IsPrefix(q, r) == Len(q) <= Len(r) /\ SubSeq(r, 1, Len(q)) = q

\* C16: poll returns only with the chunks channel closed, and from then on
\* nothing is received from closeStreams: the notifications in it stay in
\* it, in their places, the registry keeps every key, and a send blocked on
\* the full channel stays blocked.
C16_AfterReturn ==
    [][ /\ ppc' = "done" => chunksClosed'
        /\ ppc = "done" =>
             /\ ppc' = "done"
             /\ streams' = streams
             /\ IsPrefix(closeStreams, closeStreams')
             /\ IsPrefix(waiting, waiting')
             /\ ~ConsumesTeardown
      ]_vars

\* poll has returned; the channel is full with the teardown of a registered
\* key, and a second send is blocked on it.
C16_Witness ==
    /\ ppc = "done"
    /\ Len(closeStreams) = TlsCloseChannelBufferSize
    /\ Head(closeStreams).key \in DOMAIN streams
    /\ waiting # << >>


\* The teardown notifications poll has consumed so far.
Consumed == sent - Len(closeStreams) - Len(waiting)

C18_Rendezvous ==
    [][ /\ (ipc' = "send") = (sending' # NoChunk)
        /\ Len(handoff'.decoded) =
             Len(handoff'.handled) + (IF ipc' = "send" THEN 1 ELSE 0)
        /\ IsPrefix(handoff'.handled, handoff'.decoded)
        /\ ipc' = "send" => sending' = handoff'.decoded[Len(handoff'.decoded)]
        /\ ipc = "send" =>
             /\ reads' = reads
             /\ lastRead' = lastRead
             /\ handoff'.decoded = handoff.decoded
             /\ ipc' # "send" =>
                   /\ HandlesChunk
                   /\ lastOp'.op = "chunk"
                   /\ lastOp'.chunk = sending
                   /\ handoff'.handled = handoff.decoded
      ]_vars

\* Two different chunks were handled and a third is pending.
C18_Witness ==
    /\ ipc = "send"
    /\ Len(handoff.handled) = 2
    /\ handoff.handled[1] # handoff.handled[2]
    /\ sending # handoff.handled[2]


\* C19: poll returns only in the step in which its select finds the chunks
\* channel closed.  The step that handles a chunk and the step that
\* consumes a teardown leave poll at its select, and handling a chunk leaves
\* the entries and the streams of every other flow key as they were.
C19_LoopExit ==
    [][ /\ (ppc # "done" /\ ppc' = "done") =>
             /\ ppc = "select"
             /\ chunksClosed
             /\ lastOp'.op = "closed"
             /\ ~HandlesChunk
             /\ ~ConsumesTeardown
             /\ streams' = streams
        /\ ConsumesTeardown => ppc' = "select"
        /\ HandlesChunk =>
             /\ ppc' = "select"
             /\ DOMAIN streams' = (DOMAIN streams) \cup {KeyOf(sending)}
             /\ \A k \in (DOMAIN streams) \ {KeyOf(sending)} :
                  /\ streams'[k] = streams[k]
                  /\ heap'[streams[k]] = heap[streams[k]]
      ]_vars

\* poll handled chunks of two flows and consumed a teardown before it
\* returned on the closed channel.
C19_Witness ==
    /\ ppc = "done"
    /\ lastOp.op = "closed"
    /\ Len(handoff.handled) >= 2
    /\ Len(heap) >= 2
    /\ Consumed >= 1
    /\ streams # EmptyMap


\* C20: a teardown removes only the stream it was sent for: when the key of
\* the notification consumed is registered to another, newer stream than
\* the one that sent it, the entry of the key stays as it is.
C20_TeardownOwnStream ==
    [][ ConsumesTeardown =>
          LET n == Head(closeStreams)
          IN  (n.key \in DOMAIN streams /\ streams[n.key] # n.owner) =>
                  /\ n.key \in DOMAIN streams'
                  /\ streams'[n.key] = streams[n.key]
      ]_vars

=============================================================================
